---- MODULE Spec2Model ----
(***************************************************************************)
(* Model of the MMM-Ring node helper (src/node_helper.js): the streaming   *)
(* session state machine (startSession, onCallEnded, session timeout,      *)
(* stop), the readiness watcher (watchForStreamStarted, stopWatchingFile), *)
(* the asynchronous output-directory clean (cleanUpVideoStreamDirectory)   *)
(* and the refresh-token rotation handler (onRefreshTokenUpdated).         *)
(*                                                                         *)
(* Every action is one run-to-completion handler of the Node event loop:   *)
(* the code between two awaits, a timer callback, a subscription callback  *)
(* or the completion callback of one fs call.                              *)
(***************************************************************************)
EXTENDS Integers, Sequences, FiniteSets, Bags, TLC

\* ---------------------------------------------------------------- bounds
\* accepted triggers (session attempts) a behaviour may hold
MaxAttempts == 3
\* accepted triggers plus calls of stop() explored in one behaviour
MaxEvents == 3
\* the same, in the behaviours checked for liveness
MaxFairEvents == 2
\* refresh-token rotation events explored
MaxRotations == 3
\* accepted triggers plus calls of stop(), in the behaviours explored with
\* motion streaming switched on and off
MaxPolicyEvents == 2

\* ------------------------------------------------------------- constants
Null == 0

Cameras == {"Front Door"}

\* this.audioPlaylistFile
audioPlaylistFile == "stream.m3u8"

\* this.videoOutputDirectory
videoOutputDirectory == "public"

\* names of the entries that show up in the output directory
FileNames == {"stream.m3u8", "stream0.ts"}

\* names matched by chokidar's ignored: /(^|[\/\\])\../
DotFiles == {".DS_Store"}

AttemptIds == 1 .. MaxAttempts

\* the text before the token in the .env file (line 55)
EnvKey == <<"R", "I", "N", "G", "_", "2", "F", "A", "_", "R", "E", "F", "R",
            "E", "S", "H", "_", "T", "O", "K", "E", "N", "=">>

\* refresh tokens, as texts over the characters tokens are made of (none
\* is "$", which String.prototype.replace treats specially); no token is
\* part of another one or of EnvKey
Tokens == {<<"A", "B", "C">>, <<"X", "Y", "Z">>, <<"B", "C", "A">>,
           <<"Y", "Z", "X">>, <<"C", "A", "B">>}

\* an oldRefreshToken that is undefined (no text at all: a value apart)
Absent == <<"undefined">>

VARIABLES
    config,          \* this.config: ringStreamMotion, ring2faRefreshToken
    sipSession,      \* this.sipSession: Null or the id of a session handle
    sessionRunning,  \* this.sessionRunning
    watcher,         \* this.watcher: Null or the id of a chokidar watcher
    open,            \* chokidar watchers created and not yet closed
    pc,              \* position of each startSession call
    handle,          \* each session handle: "none", "live", "stopping"
                     \* (stop() called on it), "ended" (onCallEnded delivered)
    sessionTimers,   \* pending setTimeout(streamTimeOut) callbacks, oldest first
    watcherTimers,   \* pending setTimeout(15 s) callbacks, oldest first
    cleanups,        \* cleanUpVideoStreamDirectory calls in flight (a bag)
    dirExists,       \* the output directory exists
    dir,             \* entries of the output directory
    avail,           \* VIDEO_STREAM_AVAILABLE sent, per watcher
    ended,           \* VIDEO_STREAM_ENDED sent, per handle
    displayErrors,   \* DISPLAY_ERROR sent
    shutdownStops,   \* sipSession.stop() calls made by stop(), per handle
    stopCleanRejected, \* the clean started by a stop() call rejected, unhandled
    stops,           \* number of stop() calls
    dropped,         \* a trigger was dropped
    budget,          \* accepted triggers and stop() calls still explored
    envFile,         \* content of the .env file
    rotations,       \* onRefreshTokenUpdated handlers in flight
    latest,          \* the refresh token issued last
    issued           \* the tokens the rotation events have issued

sessionVars == <<sipSession, sessionRunning, watcher, open, pc, handle,
                 sessionTimers, watcherTimers>>
fsVars == <<cleanups, dirExists, dir>>
notifVars == <<avail, ended, displayErrors>>
countVars == <<shutdownStops, stopCleanRejected, stops, dropped, budget>>
credVars == <<envFile, rotations, latest, issued>>
\* what the program holds or has sent: no bookkeeping of the exploration
progVars == <<sessionVars, fsVars, notifVars, shutdownStops, stopCleanRejected>>
vars == <<config, sessionVars, fsVars, notifVars, countVars, credVars>>

\* ------------------------------------------------------------ watcher
\* ignored: /(^|[\/\\])\../ : entries whose name starts with a dot
Hidden(name) == name \in DotFiles

\* the path chokidar reports for an entry of the output directory
PathOf(name) == <<videoOutputDirectory, name>>

\* filePath.split("\\").pop().split("/").pop()
BaseName(path) == path[Len(path)]

\* stopWatchingFile that forgets this.watcher.close()
OpenAfterStopWatchingLeak == open

\* stopWatchingFile: this.watcher.close() on the stored watcher, if any
OpenAfterStopWatching == IF watcher # Null THEN open \ {watcher} ELSE open

\* stopWatchingFile: this.watcher = null
WatcherAfterStopWatching == Null

\* watchForStreamStarted without its stopWatchingFile()
OpenAfterWatchKeep(w) == open \cup {w}

\* watchForStreamStarted: stopWatchingFile() first, then chokidar.watch
\* (w is the new watcher)
OpenAfterWatch(w) == OpenAfterStopWatching \cup {w}

\* sipSession.stop() on handle h: onCallEnded is due
StopHandle(hs, h) ==
    IF h # Null /\ hs[h] = "live" THEN [hs EXCEPT ![h] = "stopping"] ELSE hs

\* ------------------------------------------------- directory clean tasks
\* cleanUpVideoStreamDirectory() up to its first await (fs.exists issued);
\* owner k >= 1: startSession of attempt k awaits it; owner 0: stop()
\* files: the entries fs.readdir listed that are still to be unlinked;
\* settled: the promise of Promise.all is settled; fresh: the entries of
\* the directory that were created after the fs.readdir of this call
\* (kept for the calls whose return is awaited, owner >= 1)
NewCleanup(owner) ==
    [owner |-> owner, pc |-> "exists", files |-> {}, settled |-> FALSE,
     fresh |-> {}]

\* the number of tasks of bag B that are in S
RECURSIVE SumCounts(_, _)
SumCounts(B, S) ==
    IF S = {} THEN 0
    ELSE LET t == CHOOSE x \in S : TRUE
         IN B[t] + SumCounts(B, S \ {t})

\* bag B with every task t replaced by g[t]
MapBag(B, g) ==
    [u \in {g[t] : t \in BagToSet(B)} |->
        SumCounts(B, {t \in BagToSet(B) : g[t] = u})]

\* entry f was created: it is fresh for the calls that are past their
\* fs.readdir
Created(B, f) ==
    LET Awaited(t) == t.owner # 0 /\ t.pc = "unlink"
        g == [t \in BagToSet(B) |->
                 IF Awaited(t) THEN [t EXCEPT !.fresh = @ \cup {f}] ELSE t]
    IN IF \E t \in BagToSet(B) : Awaited(t) THEN MapBag(B, g) ELSE B

\* entry f was unlinked: it is in the directory for no call
Unlinked(B, f) ==
    LET g == [t \in BagToSet(B) |-> [t EXCEPT !.fresh = @ \ {f}]]
    IN IF \E t \in BagToSet(B) : f \in t.fresh THEN MapBag(B, g) ELSE B

\* task t of the bag replaced by task u
Replace(t, u) == (cleanups (-) SetToBag({t})) (+) SetToBag({u})

\* task t gone from the bag
Remove(t) == cleanups (-) SetToBag({t})

\* The continuation of `await this.cleanUpVideoStreamDirectory()` in
\* startSession: watchForStreamStarted(), then createRtpStreamingSession is
\* requested. The await is outside the try block: a rejection ends
\* startSession there. stop() does not await its clean.
\* outcome: "pending", "resolved" or "rejected".
Settle(owner, outcome) ==
    IF owner # 0 /\ outcome = "resolved"
    THEN /\ open' = OpenAfterWatch(owner)
         /\ watcher' = owner
         /\ watcherTimers' = Append(watcherTimers, owner)
         /\ pc' = [pc EXCEPT ![owner] = "create"]
         /\ UNCHANGED stopCleanRejected
    ELSE IF owner # 0 /\ outcome = "rejected"
    THEN /\ pc' = [pc EXCEPT ![owner] = "failed"]
         /\ UNCHANGED <<open, watcher, watcherTimers, stopCleanRejected>>
    ELSE /\ stopCleanRejected' = (stopCleanRejected \/ outcome = "rejected")
         /\ UNCHANGED <<open, watcher, watcherTimers, pc>>

cleanFrame == <<config, sipSession, sessionRunning, handle, sessionTimers,
                notifVars, shutdownStops, stops, dropped, budget, credVars>>

\* callback of fs.exists (line 66)
CleanExists(t) ==
    /\ t.pc = "exists"
    /\ cleanups' = Replace(t, [t EXCEPT !.pc = IF dirExists THEN "readdir"
                                                ELSE "mkdir"])
    /\ Settle(t.owner, "pending")
    /\ UNCHANGED <<dirExists, dir>>
    /\ UNCHANGED cleanFrame

\* callback of fs.mkdir (line 67): EEXIST when another clean made it first
CleanMkdir(t) ==
    /\ t.pc = "mkdir"
    /\ IF dirExists
       THEN /\ cleanups' = Remove(t)
            /\ Settle(t.owner, "rejected")
            /\ UNCHANGED dirExists
       ELSE /\ dirExists' = TRUE
            /\ cleanups' = Replace(t, [t EXCEPT !.pc = "readdir"])
            /\ Settle(t.owner, "pending")
    /\ UNCHANGED dir
    /\ UNCHANGED cleanFrame

\* callback of fs.readdir (line 70): one fs.unlink is issued per entry;
\* Promise.all([]) resolves at once
CleanReaddir(t) ==
    /\ t.pc = "readdir"
    /\ IF dir = {}
       THEN /\ cleanups' = Remove(t)
            /\ Settle(t.owner, "resolved")
       ELSE /\ cleanups' = Replace(t, [t EXCEPT !.pc = "unlink", !.files = dir])
            /\ Settle(t.owner, "pending")
    /\ UNCHANGED <<dirExists, dir>>
    /\ UNCHANGED cleanFrame

\* a promise that is fulfilled by the first unlink that succeeds
UnlinkOutcomeFirst(t, ok, rest) ==
    IF t.settled THEN "pending"
    ELSE IF ~ok THEN "rejected"
    ELSE "resolved"

\* what the promise returned by Promise.all(unlinkPromises) does when the
\* unlink of one entry completes: ok = the entry was there, rest = the
\* unlinks still running
UnlinkOutcome(t, ok, rest) ==
    IF t.settled THEN "pending"
    ELSE IF ~ok THEN "rejected"
    ELSE IF rest = {} THEN "resolved"
    ELSE "pending"

\* callback of one fs.unlink (line 72): ENOENT when the entry is gone.
\* The unlinks already issued run on after Promise.all has rejected.
CleanUnlink(t, f) ==
    /\ t.pc = "unlink"
    /\ f \in t.files
    /\ LET ok == f \in dir
           rest == t.files \ {f}
           outcome == UnlinkOutcome(t, ok, rest)
       IN /\ dir' = dir \ {f}
          /\ cleanups' = Unlinked(IF rest = {} THEN Remove(t)
                                   ELSE Replace(t, [t EXCEPT
                                           !.files = rest,
                                           !.settled = t.settled
                                                       \/ outcome # "pending"]),
                                   f)
          /\ Settle(t.owner, outcome)
    /\ UNCHANGED dirExists
    /\ UNCHANGED cleanFrame

\* a guard of startSession that tests the handle alone
BusyNoFlag == sipSession # Null

\* ----------------------------------------------------------- triggers
\* the guard of startSession (line 144)
Busy == sipSession # Null \/ sessionRunning = TRUE

\* a dropped trigger that disarms the watcher on its way out
DropTriggerDisarm ==
    /\ dropped' = TRUE
    /\ open' = OpenAfterStopWatching
    /\ watcher' = Null
    /\ UNCHANGED <<config, sipSession, sessionRunning, pc, handle,
                   sessionTimers, watcherTimers, fsVars, notifVars,
                   shutdownStops, stopCleanRejected, stops, budget, credVars>>

\* a trigger that starts nothing (the subscriber's if, or startSession's
\* early return)
DropTrigger ==
    /\ dropped' = TRUE
    /\ UNCHANGED <<config, sessionVars, fsVars, notifVars, shutdownStops,
                   stopCleanRejected, stops, budget, credVars>>

\* the id the next accepted trigger gets
NextAttempt == Cardinality({k \in AttemptIds : pc[k] # "none"}) + 1

\* startSession(camera, type) up to its first await (lines 143-151)
StartSession(camera, type) ==
    IF Busy
    THEN DropTrigger
    ELSE /\ NextAttempt \in AttemptIds
         /\ budget > 0
         /\ budget' = budget - 1
         /\ sessionRunning' = TRUE
         /\ pc' = [pc EXCEPT ![NextAttempt] = "clean"]
         /\ cleanups' = cleanups (+) SetToBag({NewCleanup(NextAttempt)})
         /\ UNCHANGED <<config, sipSession, watcher, open, handle,
                        sessionTimers, watcherTimers, dirExists, dir,
                        notifVars, shutdownStops, stopCleanRejected, stops,
                        dropped, credVars>>

\* camera.onDoorbellPressed subscriber (lines 113-117)
Doorbell(camera) ==
    IF ~(sipSession # Null)
    THEN StartSession(camera, "ring")
    ELSE DropTrigger

\* a motion subscriber that is there whatever the configuration says
MotionSubscribedAlways == TRUE

\* if (this.config.ringStreamMotion) around the subscription (line 120)
MotionSubscribed == config.ringStreamMotion

\* a motion event of the camera: the camera.onMotionDetected subscriber
\* (lines 120-125) runs if it was subscribed; an event nobody subscribed
\* to starts nothing
Motion(camera, motion) ==
    IF MotionSubscribed
    THEN IF ~(sipSession # Null) /\ motion
         THEN StartSession(camera, "motion")
         ELSE DropTrigger
    ELSE DropTrigger

\* --------------------------------------------------- session creation
\* createRtpStreamingSession resolves (lines 157-182): the handle is stored,
\* onCallEnded is subscribed, the session timeout is armed
CreateResolve(k) ==
    /\ k \in AttemptIds
    /\ pc[k] = "create"
    /\ sipSession' = k
    /\ handle' = [handle EXCEPT ![k] = "live"]
    /\ sessionTimers' = Append(sessionTimers, k)
    /\ pc' = [pc EXCEPT ![k] = "done"]
    /\ UNCHANGED <<config, sessionRunning, watcher, open, watcherTimers,
                   fsVars, notifVars, countVars, credVars>>

\* this.sessionRunning after the catch block (line 186)
RunningAfterCatch == FALSE

\* a catch block that reports the failure to the UI
ErrorsAfterCatchSent == displayErrors + 1

\* DISPLAY_ERROR sent after the catch block (lines 184-187): it logs and
\* sends nothing
ErrorsAfterCatch == displayErrors

\* createRtpStreamingSession rejects (lines 184-187)
CreateReject(k) ==
    /\ k \in AttemptIds
    /\ pc[k] = "create"
    /\ sessionRunning' = RunningAfterCatch
    /\ displayErrors' = ErrorsAfterCatch
    /\ pc' = [pc EXCEPT ![k] = "rejected"]
    /\ UNCHANGED <<config, sipSession, watcher, open, handle, sessionTimers,
                   watcherTimers, fsVars, avail, ended, countVars, credVars>>

\* an onCallEnded subscriber that leaves the flag set
RunningAfterEndedKept == sessionRunning

\* this.sessionRunning after the onCallEnded subscriber (line 175)
RunningAfterEnded == FALSE

\* an onCallEnded subscriber that keeps the handle stored
SessionAfterEndedKept == sipSession

\* this.sipSession after the onCallEnded subscriber (line 174)
SessionAfterEnded == Null

\* an onCallEnded subscriber that leaves the watcher armed
OnCallEndedKeepsWatcher(h) ==
    /\ h \in AttemptIds
    /\ handle[h] \in {"live", "stopping"}
    /\ handle' = [handle EXCEPT ![h] = "ended"]
    /\ ended' = [ended EXCEPT ![h] = @ + 1]
    /\ sipSession' = Null
    /\ sessionRunning' = FALSE
    /\ UNCHANGED <<config, watcher, open, pc, sessionTimers, watcherTimers,
                   fsVars, avail, displayErrors, countVars, credVars>>

\* this.sipSession.onCallEnded subscriber (lines 170-176); the handle
\* delivers it once, on its own or after stop() was called on it
OnCallEnded(h) ==
    /\ h \in AttemptIds
    /\ handle[h] \in {"live", "stopping"}
    /\ handle' = [handle EXCEPT ![h] = "ended"]
    /\ ended' = [ended EXCEPT ![h] = @ + 1]
    /\ open' = OpenAfterStopWatching
    /\ watcher' = WatcherAfterStopWatching
    /\ sipSession' = SessionAfterEnded
    /\ sessionRunning' = RunningAfterEnded
    /\ UNCHANGED <<config, pc, sessionTimers, watcherTimers, fsVars, avail,
                   displayErrors, countVars, credVars>>

\* a session timeout that stops nothing
TimeoutTargetNone == Null

\* the handle the session timeout calls stop() on (lines 179-181)
TimeoutTarget == sipSession

\* a session timeout that tears the session down by itself
SessionTimeoutTearsDown ==
    /\ sessionTimers # <<>>
    /\ sessionTimers' = Tail(sessionTimers)
    /\ handle' = StopHandle(handle, TimeoutTarget)
    /\ sipSession' = Null
    /\ sessionRunning' = FALSE
    /\ UNCHANGED <<config, watcher, open, pc, watcherTimers, fsVars,
                   notifVars, countVars, credVars>>

\* the setTimeout(streamTimeOut) callback (lines 178-182)
SessionTimeout ==
    /\ sessionTimers # <<>>
    /\ sessionTimers' = Tail(sessionTimers)
    /\ handle' = StopHandle(handle, TimeoutTarget)
    /\ UNCHANGED <<config, sipSession, sessionRunning, watcher, open, pc,
                   watcherTimers, fsVars, notifVars, countVars, credVars>>

\* the setTimeout(15 s) callback of watchForStreamStarted (line 205)
WatcherTimeout ==
    /\ watcherTimers # <<>>
    /\ watcherTimers' = Tail(watcherTimers)
    /\ open' = OpenAfterStopWatching
    /\ watcher' = WatcherAfterStopWatching
    /\ UNCHANGED <<config, sipSession, sessionRunning, pc, handle,
                   sessionTimers, fsVars, notifVars, countVars, credVars>>

\* this.sipSession after stop() (line 42)
SessionAfterStop == Null

\* stop(): module shutdown (lines 36-46); the clean is started, not awaited
Stop ==
    /\ budget > 0
    /\ budget' = budget - 1
    /\ stops' = stops + 1
    /\ open' = OpenAfterStopWatching
    /\ watcher' = WatcherAfterStopWatching
    /\ IF sipSession # Null
       THEN /\ handle' = StopHandle(handle, sipSession)
            /\ shutdownStops' = [shutdownStops EXCEPT ![sipSession] = @ + 1]
            /\ sipSession' = SessionAfterStop
       ELSE UNCHANGED <<handle, shutdownStops, sipSession>>
    /\ cleanups' = cleanups (+) SetToBag({NewCleanup(0)})
    /\ UNCHANGED <<config, sessionRunning, pc, sessionTimers, watcherTimers,
                   dirExists, dir, notifVars, stopCleanRejected, dropped,
                   credVars>>

\* ------------------------------------------------ directory and watcher
\* an entry appears in the output directory (written by the transcoder or
\* by anything else that writes there)
FileAppears(f) ==
    /\ f \in FileNames
    /\ dirExists
    /\ f \notin dir
    /\ dir' = dir \cup {f}
    /\ cleanups' = Created(cleanups, f)
    /\ UNCHANGED <<config, sessionVars, dirExists, notifVars, countVars,
                   credVars>>

\* the "add" listener of watcher w (lines 212-219); a closed watcher and an
\* ignored entry deliver nothing
WatcherAdd(w, f) ==
    /\ w \in open
    /\ f \in dir
    /\ ~Hidden(f)
    /\ IF BaseName(PathOf(f)) = audioPlaylistFile
       THEN /\ open' = OpenAfterStopWatching
            /\ watcher' = WatcherAfterStopWatching
            /\ avail' = [avail EXCEPT ![w] = @ + 1]
       ELSE UNCHANGED <<open, watcher, avail>>
    /\ UNCHANGED <<config, sipSession, sessionRunning, pc, handle,
                   sessionTimers, watcherTimers, fsVars, ended, displayErrors,
                   countVars, credVars>>

\* ------------------------------------------------- credential rotation
\* the first index at or after i where pattern occurs in text, 0 if none
RECURSIVE IndexFrom(_, _, _)
IndexFrom(text, pattern, i) ==
    IF i + Len(pattern) - 1 > Len(text) THEN 0
    ELSE IF SubSeq(text, i, i + Len(pattern) - 1) = pattern THEN i
    ELSE IndexFrom(text, pattern, i + 1)

\* currentConfig.toString().replace(oldRefreshToken, newRefreshToken)
\* (lines 95-97): a string pattern replaces its first occurrence only
ReplaceFirst(text, pattern, replacement) ==
    LET i == IndexFrom(text, pattern, 1)
    IN IF i = 0 THEN text
       ELSE SubSeq(text, 1, i - 1) \o replacement
            \o SubSeq(text, i + Len(pattern), Len(text))

\* a test of oldRefreshToken that lets the empty text through
FalsyOnlyUndefined(token) == token = Absent

\* if (!oldRefreshToken) return (line 92): undefined and "" are falsy
Falsy(token) == token = Absent \/ token = <<>>

\* the oldRefreshToken the API client reports: the token it held, which is
\* undefined or empty when it never held one; the new one is a token it
\* never issued before
OldValues == IF latest = <<>> THEN {Absent, <<>>} ELSE {latest}

sessionFrame == <<config, sessionVars, fsVars, notifVars, countVars>>

\* onRefreshTokenUpdated subscriber up to its first await (lines 90-94)
RotationEvent(old, new) ==
    /\ Cardinality(issued) < MaxRotations
    /\ old \in OldValues
    /\ new \in Tokens \ (issued \cup {config.ring2faRefreshToken})
    /\ issued' = issued \cup {new}
    /\ latest' = new
    /\ rotations' = IF Falsy(old) THEN rotations
                    ELSE rotations (+) SetToBag({[old |-> old, new |-> new,
                                                  pc |-> "read",
                                                  currentConfig |-> <<>>,
                                                  updateConfig |-> <<>>]})
    /\ UNCHANGED envFile
    /\ UNCHANGED sessionFrame

\* fs.readFile completes (lines 94-98): the text is replaced and
\* fs.writeFile is issued
RotationRead(r) ==
    /\ r.pc = "read"
    /\ rotations' = (rotations (-) SetToBag({r})) (+)
                    SetToBag({[r EXCEPT
                        !.pc = "write",
                        !.currentConfig = envFile,
                        !.updateConfig = ReplaceFirst(envFile, r.old, r.new)]})
    /\ UNCHANGED <<envFile, latest, issued>>
    /\ UNCHANGED sessionFrame

\* fs.writeFile completes (line 98)
RotationWrite(r) ==
    /\ r.pc = "write"
    /\ envFile' = r.updateConfig
    /\ rotations' = rotations (-) SetToBag({r})
    /\ UNCHANGED <<latest, issued>>
    /\ UNCHANGED sessionFrame

\* ---------------------------------------------------------------- Init
\* start() (lines 24-34)
InitSession ==
    /\ sipSession = Null
    /\ sessionRunning = FALSE
    /\ watcher = Null
    /\ open = {}
    /\ pc = [k \in AttemptIds |-> "none"]
    /\ handle = [k \in AttemptIds |-> "none"]
    /\ sessionTimers = <<>>
    /\ watcherTimers = <<>>
    /\ cleanups = EmptyBag
    /\ dirExists \in BOOLEAN
    /\ dir = {}
    /\ avail = [k \in AttemptIds |-> 0]
    /\ ended = [k \in AttemptIds |-> 0]
    /\ displayErrors = 0
    /\ shutdownStops = [k \in AttemptIds |-> 0]
    /\ stopCleanRejected = FALSE
    /\ stops = 0
    /\ dropped = FALSE

\* BEGIN_RING_MONITORING with no .env file yet (lines 49-61): the file is
\* written from config.ring2faRefreshToken and the API client starts from it
InitCred ==
    /\ envFile = EnvKey \o config.ring2faRefreshToken
    /\ rotations = EmptyBag
    /\ latest = config.ring2faRefreshToken
    /\ issued = {}

\* motion streaming switched on (with it off the motion subscriber does not
\* exist, and the behaviours are those below without Motion steps)
Init ==
    /\ config = [ringStreamMotion |-> TRUE,
                 ring2faRefreshToken |-> <<"A", "B", "C">>]
    /\ InitSession
    /\ InitCred
    /\ budget = MaxEvents

SessionNext ==
    \/ \E c \in Cameras : Doorbell(c)
    \/ \E c \in Cameras, m \in BOOLEAN : Motion(c, m)
    \/ \E t \in BagToSet(cleanups) : CleanExists(t)
    \/ \E t \in BagToSet(cleanups) : CleanMkdir(t)
    \/ \E t \in BagToSet(cleanups) : CleanReaddir(t)
    \/ \E t \in BagToSet(cleanups), f \in FileNames : CleanUnlink(t, f)
    \/ \E k \in AttemptIds : CreateResolve(k)
    \/ \E k \in AttemptIds : CreateReject(k)
    \/ \E h \in AttemptIds : OnCallEnded(h)
    \/ SessionTimeout
    \/ WatcherTimeout
    \/ Stop
    \/ \E f \in FileNames : FileAppears(f)
    \/ \E w \in AttemptIds, f \in FileNames : WatcherAdd(w, f)

Next == SessionNext

\* the session subsystem
Spec == Init /\ [][Next]_vars

\* the credential store: the token configured at the start is a token or
\* the empty text (nothing configured)
CredInit ==
    /\ config \in [ringStreamMotion : {TRUE},
                   ring2faRefreshToken : {<<"A", "B", "C">>, <<>>}]
    /\ InitSession
    /\ dirExists = TRUE
    /\ InitCred
    /\ budget = MaxEvents

CredNext ==
    \/ \E old \in Tokens \cup {Absent, <<>>}, new \in Tokens :
          RotationEvent(old, new)
    \/ \E r \in BagToSet(rotations) : RotationRead(r)
    \/ \E r \in BagToSet(rotations) : RotationWrite(r)

CredSpec == CredInit /\ [][CredNext]_vars

\* liveness is checked on the behaviours of the session subsystem in which
\* a pending timer fires in the end and a handle that was asked to stop
\* delivers onCallEnded
FairInit ==
    /\ config = [ringStreamMotion |-> TRUE,
                 ring2faRefreshToken |-> <<"A", "B", "C">>]
    /\ InitSession
    /\ InitCred
    /\ budget = MaxFairEvents

FairSpec ==
    /\ FairInit
    /\ [][Next]_vars
    /\ WF_vars(SessionTimeout)
    /\ \A h \in AttemptIds : WF_vars(handle[h] = "stopping" /\ OnCallEnded(h))

\* the trigger policy is checked with motion streaming switched on and off
PolicyInit ==
    /\ config \in [ringStreamMotion : BOOLEAN,
                   ring2faRefreshToken : {<<"A", "B", "C">>}]
    /\ InitSession
    /\ InitCred
    /\ budget = MaxPolicyEvents

PolicySpec == PolicyInit /\ [][Next]_vars

\* shutdown is checked on the behaviours in which the cameras report
\* nothing once stop() has been called: whatever runs after the shutdown
\* was started before it
ShutdownNext ==
    \/ \E c \in Cameras : stops = 0 /\ Doorbell(c)
    \/ \E c \in Cameras, m \in BOOLEAN : stops = 0 /\ Motion(c, m)
    \/ \E t \in BagToSet(cleanups) : CleanExists(t)
    \/ \E t \in BagToSet(cleanups) : CleanMkdir(t)
    \/ \E t \in BagToSet(cleanups) : CleanReaddir(t)
    \/ \E t \in BagToSet(cleanups), f \in FileNames : CleanUnlink(t, f)
    \/ \E k \in AttemptIds : CreateResolve(k)
    \/ \E k \in AttemptIds : CreateReject(k)
    \/ \E h \in AttemptIds : OnCallEnded(h)
    \/ SessionTimeout
    \/ WatcherTimeout
    \/ Stop
    \/ \E f \in FileNames : FileAppears(f)
    \/ \E w \in AttemptIds, f \in FileNames : WatcherAdd(w, f)

ShutdownSpec == Init /\ [][ShutdownNext]_vars

\* ================================================================ claims
\* the attempts that are not Idle: startSession is between its acceptance
\* and its end (or was ended by a rejected clean with the flag still set),
\* or the handle it created has not delivered onCallEnded
NonIdle(k) ==
    \/ pc[k] \in {"clean", "create", "failed"}
    \/ handle[k] \in {"live", "stopping"}

Idle == sipSession = Null /\ sessionRunning = FALSE

\* C1 - Exclusivity: in every reachable state at most one session attempt
\* is not Idle; so createRtpStreamingSession is pending for at most one
\* attempt, and never while a created handle has not delivered onCallEnded.
C1_Exclusivity ==
    /\ Cardinality({k \in AttemptIds : NonIdle(k)}) <= 1
    /\ \A k \in AttemptIds : NonIdle(k) => (sipSession # Null \/ sessionRunning)

\* a trigger was dropped, and a second session is being created after the
\* first one ended
C1_Witness ==
    /\ dropped
    /\ handle[1] = "ended"
    /\ pc[2] = "create"

\* C2 - FileSystemError recovery (the claim as stated): the step in which
\* the clean awaited by startSession rejects leaves the session Idle.
C2_CleanFailureResetsSession ==
    [][\A k \in AttemptIds :
          (pc[k] = "clean" /\ pc'[k] = "failed")
              => (sessionRunning' = FALSE /\ sipSession' = Null)]_vars

\* C3 - Teardown completeness: a session that is Active (its handle is
\* stored in sipSession) is eventually Idle again.
C3_TeardownCompleteness ==
    \A h \in AttemptIds : (sipSession = h) ~> Idle

\* the session timeout has called stop() on the stored handle, whose
\* onCallEnded is still to come
C3_Witness ==
    /\ sipSession = 1
    /\ handle[1] = "stopping"
    /\ sessionTimers = <<>>

\* C4 - Creation failure (the claim as stated): the rejection leaves the
\* session Idle, and no VIDEO_STREAM_AVAILABLE and no VIDEO_STREAM_ENDED is
\* ever sent for an attempt whose createRtpStreamingSession rejected.
C4_CreationFailureSilent ==
    [][\A k \in AttemptIds :
          /\ (pc[k] = "create" /\ pc'[k] = "rejected")
                => (sessionRunning' = FALSE /\ sipSession' = Null)
          /\ pc'[k] = "rejected" => (avail'[k] = 0 /\ ended'[k] = 0)]_vars

\* C5 - Drop on contention: a doorbell or motion event that arrives while
\* the session is not Idle changes nothing of the program's state (directory,
\* clean tasks, watcher, timers, handles, notifications); one that arrives
\* while Idle starts one attempt and leaves the session not Idle, so that a
\* second event of the same instant is dropped.
C5_DropOnContention ==
    [][\A c \in Cameras :
          (Doorbell(c) \/ \E m \in BOOLEAN : Motion(c, m))
              => IF ~Idle
                 THEN UNCHANGED progVars
                 ELSE \/ UNCHANGED progVars
                      \/ /\ ~Idle'
                         /\ Cardinality({k \in AttemptIds : pc'[k] # "none"})
                              = Cardinality({k \in AttemptIds : pc[k] # "none"}) + 1]_vars

\* a trigger was dropped while the only attempt was still cleaning the
\* directory
C5_Witness ==
    /\ dropped
    /\ pc[1] = "clean"
    /\ \A k \in AttemptIds \ {1} : pc[k] = "none"

\* C6 - At-most-once readiness: VIDEO_STREAM_AVAILABLE is sent for a watcher
\* only while that watcher is open and has sent none yet, and the sending
\* step closes it.
C6_AtMostOnceReady ==
    [][\A w \in AttemptIds :
          avail'[w] # avail[w]
              => /\ w \in open
                 /\ avail[w] = 0
                 /\ avail'[w] = 1
                 /\ w \notin open']_vars

\* the playlist file is still in the directory after the watcher reported
\* it once and was closed
C6_Witness ==
    /\ avail[1] = 1
    /\ 1 \notin open
    /\ audioPlaylistFile \in dir
    /\ watcherTimers # <<>>

\* C7 - Credential freshness (the claim as stated): once no rotation
\* handler is in flight, the .env file holds the token issued last (the
\* token configured at the start being a token).
C7_StorageHoldsLatest ==
    (rotations = EmptyBag /\ config.ring2faRefreshToken # <<>>)
        => envFile = EnvKey \o latest

\* pattern occurs in text at index i
OccursAt(text, pattern, i) ==
    /\ i \in 1 .. (Len(text) - Len(pattern) + 1)
    /\ SubSeq(text, i, i + Len(pattern) - 1) = pattern

\* result is text with the first occurrence of old replaced by new and
\* everything around it kept, or text itself when old does not occur
Substituted(text, old, new, result) ==
    IF \E i \in 1 .. Len(text) : OccursAt(text, old, i)
    THEN \E i \in 1 .. Len(text) :
            /\ OccursAt(text, old, i)
            /\ \A j \in 1 .. (i - 1) : ~OccursAt(text, old, j)
            /\ Len(result) = Len(text) - Len(old) + Len(new)
            /\ SubSeq(result, 1, i - 1) = SubSeq(text, 1, i - 1)
            /\ SubSeq(result, i, i + Len(new) - 1) = new
            /\ SubSeq(result, i + Len(new), Len(result))
                 = SubSeq(text, i + Len(old), Len(text))
    ELSE result = text

\* C8 - Credential rotation substitution: what a rotation handler writes is
\* the content it read with the first occurrence of the old value replaced
\* by the new one and the rest unchanged (RING_2FA_REFRESH_TOKEN=ABC becomes
\* RING_2FA_REFRESH_TOKEN=XYZ); the file changes only by such a write; an
\* event whose old value is undefined or empty starts no read and no write.
C8_RotationSubstitution ==
    [][/\ ReplaceFirst(EnvKey \o <<"A", "B", "C">>, <<"A", "B", "C">>,
                       <<"X", "Y", "Z">>) = EnvKey \o <<"X", "Y", "Z">>
       /\ \A r \in BagToSet(rotations') :
             r.pc = "write"
                 => Substituted(r.currentConfig, r.old, r.new, r.updateConfig)
       /\ envFile' # envFile
             => \E r \in BagToSet(rotations) :
                   /\ r.pc = "write"
                   /\ r.currentConfig # <<>>
                   /\ envFile' = r.updateConfig
       /\ (issued' # issued /\ latest = <<>>)
             => UNCHANGED <<envFile, rotations>>
       /\ (issued' # issued /\ latest # <<>>)
             => /\ UNCHANGED envFile
                /\ \E r \in BagToSet(rotations') :
                      r.pc = "read" /\ r.old = latest /\ r.new = latest']_vars

\* the single rotation ABC -> XYZ has been read, replaced and written
C8_Witness ==
    /\ config.ring2faRefreshToken = <<"A", "B", "C">>
    /\ envFile = EnvKey \o <<"X", "Y", "Z">>
    /\ latest = <<"X", "Y", "Z">>
    /\ issued = {<<"X", "Y", "Z">>}
    /\ rotations = EmptyBag

\* C9 - Ended teardown: the step that sends VIDEO_STREAM_ENDED for a handle
\* sends it for the first and only time, and leaves the session Idle with no
\* watcher armed; a handle has ended exactly when its notification was sent.
C9_EndedTeardown ==
    [][\A h \in AttemptIds :
          /\ (ended'[h] # ended[h] \/ (handle'[h] = "ended" /\ handle[h] # "ended"))
                => /\ ended[h] = 0
                   /\ ended'[h] = 1
                   /\ handle'[h] = "ended"
                   /\ sipSession' = Null
                   /\ sessionRunning' = FALSE
                   /\ watcher' = Null
                   /\ open' = {}]_vars

\* onCallEnded came while the watcher of the attempt was still armed
C9_Witness ==
    /\ ended[1] = 1
    /\ handle[1] = "ended"
    /\ Idle
    /\ watcher = Null
    /\ avail[1] = 0
    /\ watcherTimers = <<1>>

\* C10 - Idempotent shutdown (the claim as stated): stop() calls ask a
\* handle to stop at most once, no notification is sent twice, and when no
\* trigger was ever accepted the stop() calls raise no error (no clean they
\* started rejects).
C10_IdempotentShutdown ==
    /\ \A h \in AttemptIds :
          shutdownStops[h] <= 1 /\ ended[h] <= 1 /\ avail[h] <= 1
    /\ (\A k \in AttemptIds : pc[k] = "none") => ~stopCleanRejected

\* an attempt is started by the step: the flag is set and the next
\* startSession call is at its clean
AttemptStarted ==
    /\ sessionRunning' = TRUE
    /\ pc[NextAttempt] = "none"
    /\ pc'[NextAttempt] = "clean"

\* C11 - Trigger policy: a doorbell press that arrives while Idle starts a
\* session attempt; a motion event starts one (while Idle) if
\* ringStreamMotion is enabled and the payload says motion is active; with
\* ringStreamMotion disabled, or with a motion-ended payload, a motion
\* event changes nothing of the program's state.
C11_TriggerPolicy ==
    [][\A c \in Cameras :
          /\ (Doorbell(c) /\ Idle) => AttemptStarted
          /\ \A m \in BOOLEAN :
                Motion(c, m)
                    => IF config.ringStreamMotion /\ m
                       THEN Idle => AttemptStarted
                       ELSE UNCHANGED progVars]_vars

\* with ringStreamMotion disabled a motion event has come (no doorbell
\* press is dropped before an attempt was ever started) and nothing was
\* started
C11_Witness ==
    /\ ~config.ringStreamMotion
    /\ dropped
    /\ Idle
    /\ stops = 0
    /\ \A k \in AttemptIds : pc[k] = "none"

\* the clean awaited by startSession of attempt k returns successfully in
\* this step
CleanReturns(k) == pc[k] = "clean" /\ pc'[k] = "create"

\* C12 - Directory cleanliness (the claim as stated): when the clean
\* returns successfully the directory exists and holds no entry, whether
\* or not it existed before and whether or not entries are created while
\* the clean is in progress.
C12_DirectoryEmptyOnReturn ==
    [][\A k \in AttemptIds :
          CleanReturns(k) => (dirExists' /\ dir' = {})]_vars

\* C12 as amended: when the clean returns successfully the directory
\* exists, and every entry it holds was created after the fs.readdir of
\* that clean (none when nothing was created since).
C12_DirectoryCleanOnReturn ==
    [][\A k \in AttemptIds :
          CleanReturns(k)
              => /\ dirExists'
                 /\ \A t \in BagToSet(cleanups) :
                       (t.owner = k /\ ~t.settled) => dir' \subseteq t.fresh]_vars

\* the clean of the first attempt has returned successfully (the watcher
\* was armed, createRtpStreamingSession is pending) and the directory holds
\* an entry
C12_Witness ==
    /\ pc[1] = "create"
    /\ watcherTimers = <<1>>
    /\ cleanups = EmptyBag
    /\ stops = 0
    /\ "stream0.ts" \in dir
    /\ dirExists

\* the oldest pending session timeout fires in this step
SessionTimerFires ==
    sessionTimers # <<>> /\ sessionTimers' = Tail(sessionTimers)

\* the oldest pending watcher timeout fires in this step
WatcherTimerFires ==
    watcherTimers # <<>> /\ watcherTimers' = Tail(watcherTimers)

\* C13 - No spurious session timeout (the claim as stated): the session
\* timeout asks a handle to stop only if it is the timer that was armed
\* for that handle; the timer of a session that ended early never stops a
\* later session.
C13_NoSpuriousSessionTimeout ==
    [][\A h \in AttemptIds :
          (SessionTimerFires /\ handle[h] = "live" /\ handle'[h] = "stopping")
              => Head(sessionTimers) = h]_vars

\* C14 - No spurious watcher timeout (the claim as stated): the watcher
\* timeout disarms a watcher only if it is the timer that was armed with
\* that watcher; the timer of an earlier arming never disarms the watcher
\* of a later attempt.
C14_NoSpuriousWatcherTimeout ==
    [][\A w \in AttemptIds :
          (WatcherTimerFires /\ w \in open /\ w \notin open')
              => Head(watcherTimers) = w]_vars

\* C15 - Shutdown is complete (the claim as stated): once stop() has been
\* called, whatever the session state was at that moment, no watcher is
\* armed and no session handle is live without a stop request. (No trigger
\* comes after the shutdown in the behaviours checked, so every watcher
\* and handle is one of a startSession call made before it.)
C15_ShutdownComplete ==
    stops > 0
        => /\ watcher = Null
           /\ open = {}
           /\ \A h \in AttemptIds : handle[h] # "live"

\* the attempts whose clean has returned: watchForStreamStarted has run
Armed(k) == pc[k] \in {"create", "done", "rejected"}

\* C16 - WatchTask invariant (the claim as stated): at most one watcher is
\* armed, and only while its attempt is Starting: never while the session
\* is Idle, never once it is Active.
C16_WatcherOnlyWhileStarting ==
    /\ Cardinality(open) <= 1
    /\ \A w \in open :
          /\ pc[w] \in {"clean", "create"}
          /\ ~Idle
          /\ sipSession = Null

\* C16 as amended: at most one watcher is armed, and it is the one stored
\* in this.watcher, armed by the latest attempt whose clean has returned;
\* it is armed while that attempt's createRtpStreamingSession is pending
\* and may stay armed once the session is Active or, after a creation
\* failure, Idle; it is never armed for an attempt that has sent
\* VIDEO_STREAM_AVAILABLE or VIDEO_STREAM_ENDED.
C16_WatcherOfLatestArming ==
    /\ Cardinality(open) <= 1
    /\ open = IF watcher = Null THEN {} ELSE {watcher}
    /\ \A w \in open :
          /\ Armed(w)
          /\ \A k \in AttemptIds : (k > w) => ~Armed(k)
          /\ avail[w] = 0
          /\ ended[w] = 0

\* the watcher is still armed while the session it was armed for is Active
C16_Witness ==
    /\ sipSession = 1
    /\ handle[1] = "live"
    /\ watcher = 1
    /\ open = {1}

\* C17 - Single teardown path: the step in which a session timeout fires
\* leaves sipSession, sessionRunning, the watcher and the notifications as
\* they are; all it does is ask the stored handle, if there is one and it
\* is live, to stop; with the session Idle it changes nothing. A session
\* whose handle exists becomes Idle, and VIDEO_STREAM_ENDED is sent, only
\* in the step in which that handle delivers onCallEnded.
C17_SingleTeardownPath ==
    [][/\ SessionTimerFires
          => /\ UNCHANGED <<sipSession, sessionRunning, watcher, open, pc,
                            watcherTimers, fsVars, notifVars>>
             /\ \A h \in AttemptIds :
                   IF h = sipSession /\ handle[h] = "live"
                   THEN handle'[h] = "stopping"
                   ELSE handle'[h] = handle[h]
             /\ Idle => UNCHANGED handle
       /\ \A h \in AttemptIds :
             /\ ended'[h] # ended[h]
                   => (handle[h] \in {"live", "stopping"} /\ handle'[h] = "ended")
             /\ (handle[h] \in {"live", "stopping"} /\ Idle')
                   => handle'[h] = "ended"]_vars

\* the session timeout has asked the stored handle to stop: the session is
\* still not Idle, its watcher is still armed and nothing was sent
C17_Witness ==
    /\ sipSession = 1
    /\ sessionRunning
    /\ handle[1] = "stopping"
    /\ sessionTimers = <<>>
    /\ watcher = 1
    /\ stops = 0
    /\ ended[1] = 0

\* createRtpStreamingSession of attempt k rejects in this step
CreationFails(k) == pc[k] = "create" /\ pc'[k] = "rejected"

\* no retry: the rejection leaves no startSession call in progress, a call
\* that ended in the catch block is never resumed, and a call starts only
\* in the step of a doorbell or motion event
NoRetry ==
    /\ \A k, j \in AttemptIds :
          CreationFails(k) => pc'[j] \notin {"clean", "create"}
    /\ \A j \in AttemptIds :
          /\ pc[j] = "rejected" => pc'[j] = "rejected"
          /\ (pc[j] = "none" /\ pc'[j] # "none")
                => \E c \in Cameras :
                      Doorbell(c) \/ \E m \in BOOLEAN : Motion(c, m)

\* C18 - Creation failure is reported (the claim as stated): the step in
\* which createRtpStreamingSession rejects sends DISPLAY_ERROR, and no
\* retry is made.
C18_CreationFailureReported ==
    [][/\ \A k \in AttemptIds :
             CreationFails(k) => displayErrors' = displayErrors + 1
       /\ NoRetry]_vars

\* C18 as amended: the step in which createRtpStreamingSession rejects
\* sends no notification at all (the error is logged only), and no retry
\* is made.
C18_CreationFailureLoggedOnly ==
    [][/\ \A k \in AttemptIds :
             CreationFails(k) => UNCHANGED <<displayErrors, avail, ended>>
       /\ NoRetry]_vars

\* the creation of the first attempt failed, nothing was sent, and a later
\* trigger has started the second attempt
C18_Witness ==
    /\ pc[1] = "rejected"
    /\ displayErrors = 0
    /\ avail[1] = 0
    /\ pc[2] = "clean"

\* C19 - Lock/handle consistency: in every state reached a stored handle
\* implies the flag is set (sipSession # null implies sessionRunning), and
\* a step that clears the flag leaves no handle stored.
C19_HandleImpliesFlag ==
    [][/\ sipSession' # Null => sessionRunning' = TRUE
       /\ (sessionRunning = TRUE /\ sessionRunning' = FALSE)
             => sipSession' = Null]_vars

\* the flag was cleared by onCallEnded of the first session and is set
\* again with the handle of the second one stored, after a stop() call
C19_Witness ==
    /\ handle[1] = "ended"
    /\ sipSession = 2
    /\ sessionRunning
    /\ stops = 1

\* C20 - Notification ordering: VIDEO_STREAM_AVAILABLE is sent for an
\* attempt only if VIDEO_STREAM_ENDED was sent for none but earlier
\* attempts (so within one session it comes first), and an attempt is
\* accepted only when every handle created before has sent
\* VIDEO_STREAM_ENDED: after VIDEO_STREAM_ENDED no VIDEO_STREAM_AVAILABLE
\* is sent until a new trigger has been accepted.
C20_NotificationOrdering ==
    [][/\ \A w \in AttemptIds :
             avail'[w] # avail[w]
                 => \A h \in AttemptIds : ended[h] > 0 => h < w
       /\ \A k \in AttemptIds :
             (pc[k] = "none" /\ pc'[k] # "none")
                 => \A h \in AttemptIds :
                       /\ handle[h] \in {"none", "ended"}
                       /\ ended[h] > 0 => h < k]_vars

\* the first session sent VIDEO_STREAM_AVAILABLE, then VIDEO_STREAM_ENDED;
\* a second trigger was accepted and its session has sent
\* VIDEO_STREAM_AVAILABLE
C20_Witness ==
    /\ avail[1] = 1
    /\ ended[1] = 1
    /\ avail[2] = 1
    /\ ended[2] = 0

====
